---- MODULE Spec2Model ----
(***************************************************************************)
(* Text summarization tool (src/app.py): the tokenizers, the preprocessor, *)
(* the frequency-based extractive summarizer and the abstractive call to   *)
(* the hosted generative service.                                          *)
(*                                                                         *)
(* A Python str is modelled as a sequence of one-character strings, so     *)
(* that the regular-expression substitutions, split(), strip() and lower() *)
(* are computed character by character, as the interpreter computes them.  *)
(* The character classes are those of the ASCII range.                     *)
(*                                                                         *)
(* The three methods of TextSummarizer are called on any document, one     *)
(* call at a time; the service of abstractive_summarize answers, raises or *)
(* answers without choices.                                                *)
(***************************************************************************)
EXTENDS Integers, Sequences, FiniteSets

VARIABLES
  text,            \* the str the call in progress (or the last call) received
  fn,              \* the method called: "none" before the first call
  pc,              \* "idle", "requesting" (blocked in the service call), "returned"
  num_sentences,   \* extractive_summarize's argument (0 in the other calls)
  frame,           \* the locals of extractive_summarize when it returned
  result,          \* the value the call returned
  raised,          \* TRUE when the call ended by an exception reaching the caller
  requests,        \* requests made to the generative service by this call
  response         \* what the generative service did with the request

vars == <<text, fn, pc, num_sentences, frame, result, raised, requests, response>>

---------------------------------------------------------------------------
(* Bounds of the model *)

\* Number of fragments an input document is put together from.
MaxChunks == 3

\* The requested sentence counts run from -MaxNegative to MaxRequested.
MaxRequested == 3

MaxNegative == 2

---------------------------------------------------------------------------
(* Characters *)

LowerLetters ==
  << "a","b","c","d","e","f","g","h","i","j","k","l","m",
     "n","o","p","q","r","s","t","u","v","w","x","y","z" >>

UpperLetters ==
  << "A","B","C","D","E","F","G","H","I","J","K","L","M",
     "N","O","P","Q","R","S","T","U","V","W","X","Y","Z" >>

Digits == {"0","1","2","3","4","5","6","7","8","9"}

Range(s) == { s[i] : i \in DOMAIN s }

WordChars == Range(LowerLetters) \cup Range(UpperLetters) \cup Digits \cup {"_"}

\* \w of the re module
IsWordChar(c) == c \in WordChars

\* \s of the re module, and the whitespace of str.split() and str.strip()
IsSpace(c) == c \in {" ", "\t", "\n", "\r", "\f"}

\* [.!?]
IsTerminator(c) == c \in {".", "!", "?"}

LowerOf ==
  [ c \in Range(UpperLetters) |->
      LowerLetters[CHOOSE i \in DOMAIN UpperLetters : UpperLetters[i] = c] ]

\* str.lower() on one character
LowerChar(c) == IF c \in DOMAIN LowerOf THEN LowerOf[c] ELSE c

---------------------------------------------------------------------------
(* str and re primitives *)

\* str.lower()
Lower(s) == [ i \in DOMAIN s |-> LowerChar(s[i]) ]

\* s without its leading whitespace (str.lstrip())
RECURSIVE LStrip(_)
LStrip(s) == IF s # <<>> /\ IsSpace(Head(s)) THEN LStrip(Tail(s)) ELSE s

\* s without its leading terminators
RECURSIVE SkipTerminators(_)
SkipTerminators(s) ==
  IF s # <<>> /\ IsTerminator(Head(s)) THEN SkipTerminators(Tail(s)) ELSE s

\* The longest prefix of s that holds no whitespace.
RECURSIVE UpToSpace(_)
UpToSpace(s) ==
  IF s = <<>> \/ IsSpace(Head(s)) THEN <<>> ELSE <<Head(s)>> \o UpToSpace(Tail(s))

\* The longest prefix of s that holds no terminator.
RECURSIVE UpToTerminator(_)
UpToTerminator(s) ==
  IF s = <<>> \/ IsTerminator(Head(s)) THEN <<>>
  ELSE <<Head(s)>> \o UpToTerminator(Tail(s))

Reverse(s) == [ i \in DOMAIN s |-> s[Len(s) + 1 - i] ]

\* str.strip()
Strip(s) == Reverse(LStrip(Reverse(LStrip(s))))

\* re.sub(r'\s+', ' ', s): every maximal run of whitespace becomes one space
RECURSIVE CollapseWhitespace(_)
CollapseWhitespace(s) ==
  IF s = <<>> THEN <<>>
  ELSE IF IsSpace(Head(s))
    THEN <<" ">> \o CollapseWhitespace(LStrip(s))
    ELSE <<Head(s)>> \o CollapseWhitespace(Tail(s))

\* [^\w\s.]
IsNoise(c) == ~(IsWordChar(c) \/ IsSpace(c) \/ c = ".")

KeptByPreprocess(c) == ~IsNoise(c)

\* re.sub(r'[^\w\s.]', '', s)
RemoveNoise(s) == SelectSeq(s, KeptByPreprocess)

\* re.sub(r'[^\w\s]', ' ', s)
PunctuationToSpace(s) ==
  [ i \in DOMAIN s |-> IF IsWordChar(s[i]) \/ IsSpace(s[i]) THEN s[i] ELSE " " ]

\* str.split(): the maximal runs of non-whitespace, none of them empty
RECURSIVE Split(_)
Split(s) ==
  LET t == LStrip(s)
      w == UpToSpace(t)
  IN IF t = <<>> THEN <<>>
     ELSE <<w>> \o Split(SubSeq(t, Len(w) + 1, Len(t)))

\* re.split('[.!?]+', s): the pieces between maximal runs of terminators,
\* the empty pieces at the ends included
RECURSIVE SplitOnTerminators(_)
SplitOnTerminators(s) ==
  LET p    == UpToTerminator(s)
      rest == SubSeq(s, Len(p) + 1, Len(s))
  IN IF rest = <<>> THEN <<p>>
     ELSE <<p>> \o SplitOnTerminators(SkipTerminators(rest))

\* ' '.join(list)
RECURSIVE Join(_)
Join(list) ==
  IF list = <<>> THEN <<>>
  ELSE IF Len(list) = 1 THEN list[1]
  ELSE list[1] \o <<" ">> \o Join(Tail(list))

\* list.index(x): the first position of x
Index(list, x) == CHOOSE i \in DOMAIN list : list[i] = x /\ \A j \in 1..(i-1) : list[j] # x

\* list[:n], with Python's reading of a negative n
Slice(list, n) ==
  IF n >= 0 THEN SubSeq(list, 1, IF n < Len(list) THEN n ELSE Len(list))
  ELSE SubSeq(list, 1, Len(list) + n)

---------------------------------------------------------------------------
(* Tokenizers *)

NonBlank(s) == Strip(s) # <<>>

RECURSIVE StripEach(_)
StripEach(list) ==
  IF list = <<>> THEN <<>>
  ELSE IF NonBlank(Head(list)) THEN <<Strip(Head(list))>> \o StripEach(Tail(list))
  ELSE StripEach(Tail(list))

simple_sentence_tokenize(t) == StripEach(SplitOnTerminators(CollapseWhitespace(t)))

simple_word_tokenize(t) == Split(Lower(PunctuationToSpace(t)))

---------------------------------------------------------------------------
(* TextSummarizer *)

\* self.stop_words
stop_words ==
  { <<"i">>,
    <<"m","e">>,
    <<"m","y">>,
    <<"m","y","s","e","l","f">>,
    <<"w","e">>,
    <<"o","u","r">>,
    <<"o","u","r","s">>,
    <<"o","u","r","s","e","l","v","e","s">>,
    <<"y","o","u">>,
    <<"y","o","u","'","r","e">>,
    <<"y","o","u","'","v","e">>,
    <<"y","o","u","'","l","l">>,
    <<"y","o","u","'","d">>,
    <<"y","o","u","r">>,
    <<"y","o","u","r","s">>,
    <<"y","o","u","r","s","e","l","f">>,
    <<"y","o","u","r","s","e","l","v","e","s">>,
    <<"h","e">>,
    <<"h","i","m">>,
    <<"h","i","s">>,
    <<"h","i","m","s","e","l","f">>,
    <<"s","h","e">>,
    <<"s","h","e","'","s">>,
    <<"h","e","r">>,
    <<"h","e","r","s">>,
    <<"h","e","r","s","e","l","f">>,
    <<"i","t">>,
    <<"i","t","'","s">>,
    <<"i","t","s">>,
    <<"i","t","s","e","l","f">>,
    <<"t","h","e","y">>,
    <<"t","h","e","m">>,
    <<"t","h","e","i","r">>,
    <<"t","h","e","i","r","s">>,
    <<"t","h","e","m","s","e","l","v","e","s">>,
    <<"w","h","a","t">>,
    <<"w","h","i","c","h">>,
    <<"w","h","o">>,
    <<"w","h","o","m">> }

\* "Text is too short to summarize."
TooShortMessage ==
  <<"T","e","x","t"," ","i","s"," ","t","o","o"," ","s","h","o","r","t"," ","t","o"," ","s","u","m","m","a","r","i","z","e",".">>

\* "Error in abstractive summarization: "
AbstractiveErrorPrefix ==
  <<"E","r","r","o","r"," ","i","n"," ","a","b","s","t","r","a","c","t","i","v","e"," ","s","u","m","m","a","r","i","z","a","t","i","o","n",":"," ">>

\* The word count below which a text is not summarized.
MinWords == 10

preprocess_text(t) == Strip(RemoveNoise(CollapseWhitespace(t)))

\* Fault: the threshold taken one word too low.
TooShortBelowNine(t) == t = <<>> \/ Len(Split(t)) < MinWords - 1

\* not text or len(text.split()) < 10
TooShort(t) == t = <<>> \/ Len(Split(t)) < MinWords

\* word not in self.stop_words and word.strip()
IsContentWord(word) == word \notin stop_words /\ Strip(word) # <<>>

ContentWords(t) == SelectSeq(simple_word_tokenize(t), IsContentWord)

\* word_freq[word] = word_freq.get(word, 0) + 1, for every word of words
CountWords(words) ==
  [ w \in Range(words) |-> Cardinality({ i \in DOMAIN words : words[i] = w }) ]

\* score += word_freq[word] for every word of the list that is a key
RECURSIVE SumFrequencies(_, _)
SumFrequencies(sentence_words, word_freq) ==
  IF sentence_words = <<>> THEN 0
  ELSE (IF Head(sentence_words) \in DOMAIN word_freq
          THEN word_freq[Head(sentence_words)] ELSE 0)
       + SumFrequencies(Tail(sentence_words), word_freq)

SentenceScore(sentence, word_freq) ==
  SumFrequencies(simple_word_tokenize(sentence), word_freq)

\* A dict is the sequence of its items, <<key, value>>, in insertion order.
Keys(dict) == { dict[i][1] : i \in DOMAIN dict }

\* dict[key] = value: a key already there keeps its place
DictPut(dict, key, value) ==
  IF key \in Keys(dict)
    THEN [ i \in DOMAIN dict |-> IF dict[i][1] = key THEN <<key, value>> ELSE dict[i] ]
    ELSE Append(dict, <<key, value>>)

\* The loop over sentences that fills sentence_scores.
RECURSIVE ScoreSentences(_, _, _)
ScoreSentences(sentences, word_freq, dict) ==
  IF sentences = <<>> THEN dict
  ELSE LET sentence == Head(sentences)
           score    == SentenceScore(sentence, word_freq)
       IN ScoreSentences(Tail(sentences), word_freq,
                         IF Strip(sentence) # <<>> THEN DictPut(dict, sentence, score)
                         ELSE dict)

\* Fault: a sort that puts an item before the items of the same score.
RECURSIVE InsertBeforeTies(_, _)
InsertBeforeTies(sorted, item) ==
  IF sorted = <<>> THEN <<item>>
  ELSE IF Head(sorted)[2] > item[2]
    THEN <<Head(sorted)>> \o InsertBeforeTies(Tail(sorted), item)
    ELSE <<item>> \o sorted

\* item put into a list sorted by score, descending, behind the items of the
\* same score (the sort is stable, reverse=True included)
RECURSIVE InsertByScore(_, _)
InsertByScore(sorted, item) ==
  IF sorted = <<>> THEN <<item>>
  ELSE IF Head(sorted)[2] >= item[2]
    THEN <<Head(sorted)>> \o InsertByScore(Tail(sorted), item)
    ELSE <<item>> \o sorted

\* sorted(items, key=lambda x: x[1], reverse=True)
RECURSIVE SortedByScore(_)
SortedByScore(items) ==
  IF items = <<>> THEN <<>>
  ELSE InsertByScore(SortedByScore(SubSeq(items, 1, Len(items) - 1)), items[Len(items)])

\* Fault: [:num_sentences + 1]
TopSentencesOneMore(ranking, n) == Slice(ranking, n + 1)

\* Fault: [num_sentences:], the ranking without its first num_sentences items
TopSentencesSkipped(ranking, n) ==
  IF n >= Len(ranking) THEN <<>>
  ELSE IF n >= 0 THEN SubSeq(ranking, n + 1, Len(ranking))
  ELSE IF Len(ranking) + n >= 0 THEN SubSeq(ranking, Len(ranking) + n + 1, Len(ranking))
  ELSE ranking

\* [:num_sentences] of the ranking
TopSentences(ranking, n) == Slice(ranking, n)

RECURSIVE InsertByPosition(_, _, _)
InsertByPosition(sorted, item, sentences) ==
  IF sorted = <<>> THEN <<item>>
  ELSE IF Index(sentences, Head(sorted)[1]) <= Index(sentences, item[1])
    THEN <<Head(sorted)>> \o InsertByPosition(Tail(sorted), item, sentences)
    ELSE <<item>> \o sorted

\* sorted(items, key=lambda x: sentences.index(x[0]))
RECURSIVE SortedByPosition(_, _)
SortedByPosition(items, sentences) ==
  IF items = <<>> THEN <<>>
  ELSE InsertByPosition(SortedByPosition(SubSeq(items, 1, Len(items) - 1), sentences),
                        items[Len(items)], sentences)

\* Fault: the selected sentences joined in ranking order.
SummaryInRankingOrder(summary_sentences, sentences) ==
  [ i \in DOMAIN summary_sentences |-> summary_sentences[i][1] ]

\* [sentence for sentence, score in sorted(summary_sentences, key=...)]
OrderedSummary(summary_sentences, sentences) ==
  LET ordered == SortedByPosition(summary_sentences, sentences)
  IN [ i \in DOMAIN ordered |-> ordered[i][1] ]

\* len(sentences) <= num_sentences: the text is returned as it is
ReturnsWholeText(sentences, n) == Len(sentences) <= n

\* Fault: the sentences joined instead of the text.
JoinedSentences(t, sentences) == Join(sentences)

\* return text
WholeText(t, sentences) == t

NoLocals ==
  [ branch |-> "none", sentences |-> <<>>, word_freq |-> <<>>, sentence_scores |-> <<>>,
    summary_sentences |-> <<>>, ordered_summary |-> <<>> ]

\* The locals extractive_summarize(t, n) ends with, and what it returns.
extractive_summarize(t, n) ==
  IF TooShort(t)
    THEN [ locals |-> [NoLocals EXCEPT !.branch = "short"], returns |-> TooShortMessage ]
  ELSE
    LET sentences == simple_sentence_tokenize(t) IN
    IF ReturnsWholeText(sentences, n)
      THEN [ locals  |-> [NoLocals EXCEPT !.branch = "whole", !.sentences = sentences],
             returns |-> WholeText(t, sentences) ]
    ELSE
      LET word_freq         == CountWords(ContentWords(t))
          sentence_scores   == ScoreSentences(sentences, word_freq, <<>>)
          summary_sentences == TopSentences(SortedByScore(sentence_scores), n)
          ordered_summary   == OrderedSummary(summary_sentences, sentences)
      IN [ locals  |-> [ branch            |-> "selected",
                         sentences         |-> sentences,
                         word_freq         |-> word_freq,
                         sentence_scores   |-> sentence_scores,
                         summary_sentences |-> summary_sentences,
                         ordered_summary   |-> ordered_summary ],
           returns |-> Join(ordered_summary) ]

---------------------------------------------------------------------------
(* Inputs *)

\* The fragments documents are put together from:
\*   "a b\ta b. "          a plain sentence, a tab in it
\*   "b a it b a ! "       the same content words, a stop word, a detached "!"
\*   "It's its it I?\n\n"  stop words only, one with an apostrophe, capitals
\*   "it, i it me. "       stop words only, a comma
\*   "a a. b_1 a b_1.. "   two sentences, underscore and digit, a doubled terminator
\*   "! ?\t?? . "          four words and no sentence
Chunks ==
  { <<"a"," ","b","\t","a"," ","b","."," ">>,
    <<"b"," ","a"," ","i","t"," ","b"," ","a"," ","!"," ">>,
    <<"I","t","'","s"," ","i","t","s"," ","i","t"," ","I","?","\n","\n">>,
    <<"i","t",","," ","i"," ","i","t"," ","m","e","."," ">>,
    <<"a"," ","a","."," ","b","_","1"," ","a"," ","b","_","1",".","."," ">>,
    <<"!"," ","?","\t","?","?"," ","."," ">> }

RECURSIVE DocsOf(_)
DocsOf(k) ==
  IF k = 0 THEN { <<>> }
  ELSE { d \o c : d \in DocsOf(k - 1), c \in Chunks }

\* Every concatenation of at most MaxChunks fragments.
Docs == UNION { DocsOf(k) : k \in 0..MaxChunks }

\* The sentence counts a caller asks for; the method does not validate them.
Requested == (0 - MaxNegative)..MaxRequested

\* response.choices[0].message.content of a well-formed response
Contents == { <<>>, <<"O","k",".">> }

\* str(e) of the exceptions the client raises
ServiceErrors ==
  { <<"C","o","n","n","e","c","t","i","o","n"," ","e","r","r","o","r",".">>,
    <<"I","n","v","a","l","i","d"," ","A","P","I"," ","K","e","y">> }

\* str(e) of the IndexError of response.choices[0] on a response without choices
IndexErrorText ==
  <<"l","i","s","t"," ","i","n","d","e","x"," ","o","u","t"," ","o","f"," ","r","a","n","g","e">>

NoResponse == [ kind |-> "none", value |-> <<>> ]

---------------------------------------------------------------------------
(* The calls *)

Init ==
  /\ text \in Docs
  /\ fn = "none"
  /\ pc = "idle"
  /\ num_sentences = 0
  /\ frame = NoLocals
  /\ result = <<>>
  /\ raised = FALSE
  /\ requests = 0
  /\ response = NoResponse

\* The core is synchronous, single-threaded and stateless across calls: a call
\* starts once the caller has taken the result of the call before it.
CanCall == pc = "idle"

\* TextSummarizer.preprocess_text(text)
PreprocessText ==
  /\ CanCall
  /\ fn' = "preprocess_text"
  /\ pc' = "returned"
  /\ result' = preprocess_text(text)
  /\ raised' = FALSE
  /\ frame' = NoLocals
  /\ requests' = 0
  /\ response' = NoResponse
  /\ num_sentences' = 0
  /\ UNCHANGED text

\* TextSummarizer.extractive_summarize(text, n)
ExtractiveSummarize(n) ==
  /\ CanCall
  /\ LET call == extractive_summarize(text, n)
     IN /\ frame' = call.locals
        /\ result' = call.returns
  /\ fn' = "extractive_summarize"
  /\ pc' = "returned"
  /\ num_sentences' = n
  /\ raised' = FALSE
  /\ requests' = 0
  /\ response' = NoResponse
  /\ UNCHANGED text

\* Fault: the exception is not caught.
PropagateServiceException(message) == << <<>>, TRUE >>

\* What the except clause of abstractive_summarize does with an exception
\* whose str() is message: <<result, raised>>.
HandleServiceException(message) == << AbstractiveErrorPrefix \o message, FALSE >>

\* What abstractive_summarize does once the request has failed: <<pc, requests>>.
AfterFailure(made) == << "returned", made >>

\* TextSummarizer.abstractive_summarize(text), up to the request to the service
AbstractiveSummarize ==
  /\ CanCall
  /\ fn' = "abstractive_summarize"
  /\ raised' = FALSE
  /\ frame' = NoLocals
  /\ response' = NoResponse
  /\ IF TooShort(text)
       THEN /\ pc' = "returned"
            /\ result' = TooShortMessage
            /\ requests' = 0
       ELSE /\ pc' = "requesting"
            /\ result' = <<>>
            /\ requests' = 1
  /\ num_sentences' = 0
  /\ UNCHANGED text

\* The service answers; response.choices[0].message.content is returned.
ServiceReturns(content) ==
  /\ pc = "requesting"
  /\ response' = [ kind |-> "content", value |-> content ]
  /\ result' = content
  /\ pc' = "returned"
  /\ UNCHANGED <<text, fn, num_sentences, frame, raised, requests>>

\* The request raises (authentication, network, quota).
ServiceRaises(message) ==
  /\ pc = "requesting"
  /\ response' = [ kind |-> "raised", value |-> message ]
  /\ result' = HandleServiceException(message)[1]
  /\ raised' = HandleServiceException(message)[2]
  /\ pc' = AfterFailure(requests)[1]
  /\ requests' = AfterFailure(requests)[2]
  /\ UNCHANGED <<text, fn, num_sentences, frame>>

\* The service answers without choices; reading choices[0] raises IndexError.
ServiceMalformed ==
  /\ pc = "requesting"
  /\ response' = [ kind |-> "malformed", value |-> IndexErrorText ]
  /\ result' = HandleServiceException(IndexErrorText)[1]
  /\ raised' = HandleServiceException(IndexErrorText)[2]
  /\ pc' = AfterFailure(requests)[1]
  /\ requests' = AfterFailure(requests)[2]
  /\ UNCHANGED <<text, fn, num_sentences, frame>>

\* The caller takes the value returned; nothing of the call is kept.
TakeResult ==
  /\ pc = "returned"
  /\ pc' = "idle"
  /\ fn' = "none"
  /\ num_sentences' = 0
  /\ frame' = NoLocals
  /\ result' = <<>>
  /\ raised' = FALSE
  /\ requests' = 0
  /\ response' = NoResponse
  /\ UNCHANGED text

Next ==
  \/ PreprocessText
  \/ \E n \in Requested : ExtractiveSummarize(n)
  \/ AbstractiveSummarize
  \/ \E content \in Contents : ServiceReturns(content)
  \/ \E message \in ServiceErrors : ServiceRaises(message)
  \/ ServiceMalformed
  \/ TakeResult

Spec == Init /\ [][Next]_vars

---------------------------------------------------------------------------
(* Vocabulary of the properties *)

ExtractiveReturned == fn = "extractive_summarize" /\ pc = "returned"

AbstractiveReturned == fn = "abstractive_summarize" /\ pc = "returned"

PreprocessReturned == fn = "preprocess_text" /\ pc = "returned"

\* Number of whitespace-separated words.
WordCount(t) == Len(Split(t))

LongEnough(t) == WordCount(t) >= MinWords

DocumentSentences == simple_sentence_tokenize(text)

\* The sentences of a summary: those joined where sentences were selected, those
\* of the returned text where the text was returned without ranking.
SummaryOf(locals, returned) ==
  IF locals.branch = "selected" THEN locals.ordered_summary
  ELSE simple_sentence_tokenize(returned)

Summary == SummaryOf(frame, result)

\* A sentence's score: the sum, over its word tokens, of the token's count in
\* the document-wide frequency table.
ScoreOf(sentence) == SentenceScore(sentence, frame.word_freq)

StartsWith(s, prefix) ==
  Len(s) >= Len(prefix) /\ SubSeq(s, 1, Len(prefix)) = prefix

\* No sentence selected has the score of a sentence left out.
NoTieAtBoundary(locals) ==
  \A i \in DOMAIN locals.sentence_scores : \A j \in DOMAIN locals.sentence_scores :
    ( /\ locals.sentence_scores[i][1] \in Range(locals.ordered_summary)
      /\ locals.sentence_scores[j][1] \notin Range(locals.ordered_summary) )
    => locals.sentence_scores[i][2] # locals.sentence_scores[j][2]

RECURSIVE LStripPunctuation(_)
LStripPunctuation(w) ==
  IF w # <<>> /\ ~IsWordChar(Head(w)) THEN LStripPunctuation(Tail(w)) ELSE w

\* A word without the punctuation around it.
Bare(w) == Reverse(LStripPunctuation(Reverse(LStripPunctuation(w))))

\* Every word of t is, case and surrounding punctuation aside, a stop word, or
\* nothing but punctuation.
SolelyStopWords(t) ==
  \A w \in Range(Split(Lower(t))) : Bare(w) \in stop_words \cup { <<>> }

---------------------------------------------------------------------------
(* Properties *)

\* C1: a text of fewer than 10 whitespace-separated words (the empty text
\* included) makes extractive_summarize, for every n, and abstractive_summarize
\* return exactly "Text is too short to summarize."; no exception reaches the
\* caller and the service is not requested.
C1_TooShortMessage ==
  ( /\ pc = "returned"
    /\ fn \in {"extractive_summarize", "abstractive_summarize"}
    /\ WordCount(text) < MinWords )
  => (result = TooShortMessage /\ ~raised /\ requests = 0)

\* C1 witness: extractive_summarize returned on a text of 9 words.
C1_Witness ==
  /\ ExtractiveReturned
  /\ WordCount(text) = MinWords - 1
  /\ num_sentences < 0

\* C2 as stated: with at least 10 words and no more sentences than requested,
\* extractive_summarize returns the trimmed sentences joined by single spaces.
C2_ReturnsJoinedSentences ==
  ( /\ ExtractiveReturned
    /\ LongEnough(text)
    /\ Len(DocumentSentences) <= num_sentences )
  => result = Join(DocumentSentences)

\* C2 amended: with at least 10 words and no more sentences than requested,
\* extractive_summarize returns the text itself, unchanged, so that the
\* sentences of what it returns are all the sentences of the text, in order.
C2_ReturnsTextUnchanged ==
  ( /\ ExtractiveReturned
    /\ LongEnough(text)
    /\ Len(DocumentSentences) <= num_sentences )
  => ( /\ frame.branch = "whole"
       /\ result = text
       /\ simple_sentence_tokenize(result) = DocumentSentences )

\* C2 witness: a text of several sentences returned without ranking, which is
\* not the join of its sentences.
C2_Witness ==
  /\ ExtractiveReturned
  /\ LongEnough(text)
  /\ Len(DocumentSentences) >= 2
  /\ Len(DocumentSentences) <= num_sentences
  /\ text # Join(DocumentSentences)

\* C3: where selection occurs (at least 10 words, more sentences than
\* requested), the sentences of the output are sentences of the document and
\* the first-occurrence positions of consecutive output sentences are strictly
\* increasing, whatever the ranking, duplicated sentences included.
C3_OrderPreserved ==
  ( /\ ExtractiveReturned
    /\ LongEnough(text)
    /\ Len(DocumentSentences) > num_sentences )
  => ( /\ frame.branch = "selected"
       /\ result = Join(frame.ordered_summary)
       /\ \A i \in DOMAIN frame.ordered_summary :
            frame.ordered_summary[i] \in Range(DocumentSentences)
       /\ \A i \in 1..(Len(frame.ordered_summary) - 1) :
            Index(DocumentSentences, frame.ordered_summary[i])
              < Index(DocumentSentences, frame.ordered_summary[i + 1]) )

\* C3 witness: a document with a repeated sentence, two sentences selected, the
\* better ranked of them standing later in the document.
C3_Witness ==
  /\ ExtractiveReturned
  /\ frame.branch = "selected"
  /\ Len(frame.ordered_summary) >= 2
  /\ Cardinality(Range(DocumentSentences)) < Len(DocumentSentences)
  /\ frame.summary_sentences[1][1] # frame.ordered_summary[1]

\* C4 as stated: for a text of at least 10 words and every n, n <= 0 included,
\* the summary has no more sentences than n and no more than the document.
C4_AtMostRequested ==
  (ExtractiveReturned /\ LongEnough(text))
  => ( /\ Len(Summary) <= num_sentences
       /\ Len(Summary) <= Len(DocumentSentences) )

\* C4 amended: for a text of at least 10 words and every n >= 0, the summary
\* has no more sentences than n and no more than the document; for every n the
\* summary has no more sentences than the document.
C4_AtMostRequestedNonNegative ==
  (ExtractiveReturned /\ LongEnough(text))
  => ( /\ num_sentences >= 0 => Len(Summary) <= num_sentences
       /\ Len(Summary) <= Len(DocumentSentences) )

\* C4 witness: a selection of exactly n >= 1 sentences out of more.
C4_Witness ==
  /\ ExtractiveReturned
  /\ frame.branch = "selected"
  /\ num_sentences >= 1
  /\ Len(Summary) = num_sentences
  /\ Len(DocumentSentences) > num_sentences

\* C5: for a text of at least 10 words with more than n sentences, n >= 1, the
\* output is made of exactly n sentences of the document, and no sentence left
\* out has a strictly higher score than a sentence included.
C5_ExactlyTopN ==
  ( /\ ExtractiveReturned
    /\ LongEnough(text)
    /\ num_sentences >= 1
    /\ Len(DocumentSentences) > num_sentences )
  => ( /\ Len(frame.ordered_summary) = num_sentences
       /\ Range(frame.ordered_summary) \subseteq Range(DocumentSentences)
       /\ \A kept \in Range(frame.ordered_summary) :
            \A left \in Range(DocumentSentences) \ Range(frame.ordered_summary) :
              ScoreOf(left) <= ScoreOf(kept) )

\* C6: for a text of at least 10 words and 1 <= n1 < n2 <= its sentence count,
\* when no score tie is involved at either selection boundary, every sentence of
\* the summary for n1 is a sentence of the summary for n2.
C6_Monotonic ==
  ( /\ ExtractiveReturned
    /\ LongEnough(text)
    /\ num_sentences >= 1 )
  => \A n2 \in (num_sentences + 1)..Len(DocumentSentences) :
       LET other == extractive_summarize(text, n2)
       IN (NoTieAtBoundary(frame) /\ NoTieAtBoundary(other.locals))
          => Range(Summary) \subseteq Range(SummaryOf(other.locals, other.returns))

\* C6 witness: a summary of one sentence, a larger count that still selects,
\* and no tie at either boundary.
C6_Witness ==
  /\ ExtractiveReturned
  /\ LongEnough(text)
  /\ num_sentences = 1
  /\ Len(frame.ordered_summary) = 1
  /\ Len(frame.sentence_scores) > 2
  /\ NoTieAtBoundary(frame)
  /\ NoTieAtBoundary(extractive_summarize(text, 2).locals)

\* C7: in abstractive_summarize on a text of at least 10 words, a failure of
\* the service call or of reading its response never reaches the caller: the
\* call returns a string that starts with "Error in abstractive summarization:";
\* the service is requested at most once per call; on success the content of
\* the response is returned unmodified.
C7_ServiceFailureCaught ==
  (fn = "abstractive_summarize" /\ LongEnough(text))
  => ( /\ ~raised
       /\ requests <= 1
       /\ pc = "requesting" => (requests = 1 /\ response.kind = "none")
       /\ pc = "returned" =>
            /\ requests = 1
            /\ response.kind \in {"content", "raised", "malformed"}
            /\ response.kind \in {"raised", "malformed"} =>
                 /\ StartsWith(result, AbstractiveErrorPrefix)
                 /\ result = AbstractiveErrorPrefix \o response.value
            /\ response.kind = "content" => result = response.value )

\* C7 witness: the request raised and the call has returned.
C7_Witness ==
  /\ AbstractiveReturned
  /\ LongEnough(text)
  /\ response.kind = "raised"
  /\ requests = 1

\* C8: preprocess_text returns a text without two consecutive whitespace
\* characters, without any character other than alphanumerics, underscore,
\* whitespace and the period, and without leading or trailing whitespace; the
\* empty text gives the empty text.
C8_Preprocessed ==
  PreprocessReturned
  => ( /\ \A i \in 1..(Len(result) - 1) : ~(IsSpace(result[i]) /\ IsSpace(result[i + 1]))
       /\ \A i \in DOMAIN result : IsWordChar(result[i]) \/ IsSpace(result[i]) \/ result[i] = "."
       /\ result # <<>> => (~IsSpace(result[1]) /\ ~IsSpace(result[Len(result)]))
       /\ text = <<>> => result = <<>> )

\* C9: once built, the frequency table has no stop word and no empty token
\* among its keys, so that a document made only of stop words and punctuation
\* gives an empty table and a score of 0 for each of its sentences.
C9_StopWordsExcluded ==
  (ExtractiveReturned /\ frame.branch = "selected")
  => ( /\ DOMAIN frame.word_freq \cap stop_words = {}
       /\ <<>> \notin DOMAIN frame.word_freq
       /\ SolelyStopWords(text) =>
            /\ DOMAIN frame.word_freq = {}
            /\ \A i \in DOMAIN frame.sentence_scores : frame.sentence_scores[i][2] = 0 )

\* Sentence s ranks before sentence u: a higher score, or the same score and an
\* earlier first occurrence.
RanksBefore(s, u) ==
  \/ ScoreOf(s) > ScoreOf(u)
  \/ ScoreOf(s) = ScoreOf(u) /\ Index(DocumentSentences, s) < Index(DocumentSentences, u)

\* C10: for a text of at least 10 words with more than n sentences, n >= 1, the
\* sentences selected are the first n (all, when fewer are distinct) of the
\* distinct sentences sorted by score descending, first occurrence ascending:
\* among sentences of the same score the earliest are selected.
C10_TieBreakByPosition ==
  ( /\ ExtractiveReturned
    /\ LongEnough(text)
    /\ num_sentences >= 1
    /\ Len(DocumentSentences) > num_sentences )
  => LET selected == Range(frame.ordered_summary)
         distinct == Range(DocumentSentences)
     IN /\ selected \subseteq distinct
        /\ Cardinality(selected) =
             (IF num_sentences < Cardinality(distinct) THEN num_sentences
              ELSE Cardinality(distinct))
        /\ \A s \in selected : \A u \in distinct \ selected : RanksBefore(s, u)

\* C10 witness: a sentence selected and a sentence left out have the same score.
C10_Witness ==
  /\ ExtractiveReturned
  /\ frame.branch = "selected"
  /\ num_sentences >= 1
  /\ \E s \in Range(frame.ordered_summary) :
       \E u \in Range(DocumentSentences) \ Range(frame.ordered_summary) :
         ScoreOf(s) = ScoreOf(u)

====
